---- MODULE Spec2Model ----
(***************************************************************************)
(* PathRoutifier (src/lib/PathRoutifier.js): a directory tree is walked    *)
(* recursively and turned into an ordered list of express registrations.   *)
(*                                                                         *)
(* Names of files and directories are sequences of one-character strings,  *)
(* so that the lexical sort of the directory listing and the regular       *)
(* expression that decodes a file name are computed as the code computes   *)
(* them.  The recursion of routifyRecurse_ is an explicit call stack; every*)
(* forEach iteration of the walk is one step.                              *)
(* loadMiddlewares, which index.js calls before routify, is a traversal of *)
(* a second directory tree, one step for each directory and each file.     *)
(***************************************************************************)
EXTENDS Integers, Sequences, FiniteSets, TLC

VARIABLES
    tree,              \* the file system below routesPath (input, never written)
    modules,           \* the require cache: what each module loaded so far exports
    status,            \* "constructed" | "loading" | "idle" | "running" | "returned" | "threw" | "dry"
    callStack,         \* activation records of routifyRecurse_, innermost last
    middlewaresStack,  \* this.middlewaresStack_: httpMethod -> sequence of frames
    routeStack,        \* this.routeStack_: sequence of route chunks
    internalRefs,      \* "null" | "set": middlewares_, middlewaresStack_, routeStack_
    router,            \* the calls this.router_[httpMethod](routeString, ...callbacks)
    loaded,            \* the module factories invoked so far, in order
    options,           \* the options the constructor was given
    routesPath,        \* this.routesPath_
    log,               \* the calls of this.logger_.info, in order
    middlewaresFs,     \* the file system below middlewaresPath (input, never written)
    middlewares,       \* the object loadMiddlewares builds: key path -> node
    traversal,         \* where traverseDirectory and the callback of loadMiddlewares are
    mwLoaded,          \* the files loadMiddlewares required so far, in order
    functionName,      \* the name property of the callable each loaded file gave
    dryRoutes,         \* what dryRoutify returned
    callsLeft,         \* how many more times the caller calls routify
    previous           \* how the call of routify before this one ended

vars == <<tree, modules, status, callStack, middlewaresStack, routeStack,
          internalRefs, router, loaded, options, routesPath, log,
          middlewaresFs, middlewares, traversal, mwLoaded, functionName, dryRoutes,
          callsLeft, previous>>

\* the calls of routify the caller makes
callVars == <<callsLeft, previous>>

\* the state of loadMiddlewares
mwVars == <<middlewaresFs, middlewares, traversal, mwLoaded, functionName>>

-----------------------------------------------------------------------------
(* Bounds of the model. *)

\* the trees of Spec: directories below the root, files in all
MaxDirs == 2

MaxFiles == 2

\* the trees of SpecScope
MaxScopeDirs == 3

MaxScopeFiles == 3

\* the trees of SpecFiles: files in the one directory
MaxFlatFiles == 4

\* the middlewares of SpecMiddlewares
MaxMiddlewareDirs == 2

MaxMiddlewareFiles == 3

\* the trees of SpecNames
MaxNameDirs == 2

MaxNameFiles == 2

\* the calls of routify in SpecCalls
MaxCalls == 2

\* the trees of SpecOrder
MaxOrderDirs == 3
MaxOrderFiles == 3

\* the directories of SpecDirTools
MaxListingDirs == 3
MaxListingFiles == 2

\* the middlewares of SpecNaming
MaxNamingDirs == 1
MaxNamingFiles == 2

-----------------------------------------------------------------------------
(* Characters and strings. *)

\* UTF-16 code unit of the characters the model uses (Array.prototype.sort
\* without a comparator compares strings by code units).
CharCode(c) ==
    CASE c = "$" -> 36
      [] c = "*" -> 42
      [] c = "-" -> 45
      [] c = "." -> 46
      [] c = "/" -> 47
      [] c = "0" -> 48
      [] c = "1" -> 49
      [] c = "2" -> 50
      [] c = ":" -> 58
      [] c = "^" -> 94
      [] c = "_" -> 95
      [] c = "a" -> 97
      [] c = "c" -> 99
      [] c = "d" -> 100
      [] c = "e" -> 101
      [] c = "g" -> 103
      [] c = "h" -> 104
      [] c = "i" -> 105
      [] c = "j" -> 106
      [] c = "l" -> 108
      [] c = "m" -> 109
      [] c = "n" -> 110
      [] c = "o" -> 111
      [] c = "p" -> 112
      [] c = "r" -> 114
      [] c = "s" -> 115
      [] c = "t" -> 116
      [] c = "u" -> 117
      [] c = "w" -> 119
      [] c = "x" -> 120

IsDigit(c) == CharCode(c) >= 48 /\ CharCode(c) <= 57

IsLower(c) == CharCode(c) >= 97 /\ CharCode(c) <= 122

\* as StringLess with the order reversed
RECURSIVE StringGreater(_, _)
StringGreater(a, b) ==
    IF b = <<>> THEN a # <<>>
    ELSE IF a = <<>> THEN FALSE
    ELSE IF a[1] # b[1] THEN CharCode(a[1]) > CharCode(b[1])
    ELSE StringGreater(Tail(a), Tail(b))

\* a < b for two strings, as the default comparison of Array.prototype.sort
RECURSIVE StringLess(_, _)
StringLess(a, b) ==
    IF a = <<>> THEN b # <<>>
    ELSE IF b = <<>> THEN FALSE
    ELSE IF a[1] # b[1] THEN CharCode(a[1]) < CharCode(b[1])
    ELSE StringLess(Tail(a), Tail(b))

\* names.sort() for a set of distinct names
RECURSIVE SortNames(_)
SortNames(S) ==
    IF S = {} THEN <<>>
    ELSE LET least == CHOOSE x \in S : \A y \in S \ {x} : StringLess(x, y)
         IN  <<least>> \o SortNames(S \ {least})

\* s.substr(n): the characters after the first n
Drop(s, n) == SubSeq(s, n + 1, Len(s))

\* the length of the longest prefix of s made of digits: what \d+ consumes
RECURSIVE DigitRun(_)
DigitRun(s) ==
    IF s # <<>> /\ IsDigit(s[1]) THEN 1 + DigitRun(Tail(s)) ELSE 0

\* the length of the longest prefix of s made of lowercase letters: [a-z]+
RECURSIVE LowerRun(_)
LowerRun(s) ==
    IF s # <<>> /\ IsLower(s[1]) THEN 1 + LowerRun(Tail(s)) ELSE 0

LowerCaseLetters ==
    <<"a", "b", "c", "d", "e", "f", "g", "h", "i", "j", "k", "l", "m",
      "n", "o", "p", "q", "r", "s", "t", "u", "v", "w", "x", "y", "z">>

UpperCaseLetters ==
    <<"A", "B", "C", "D", "E", "F", "G", "H", "I", "J", "K", "L", "M",
      "N", "O", "P", "Q", "R", "S", "T", "U", "V", "W", "X", "Y", "Z">>

\* c.toUpperCase() and c.toLowerCase() for one character
ToUpperCase(c) ==
    IF \E k \in 1..26 : LowerCaseLetters[k] = c
    THEN UpperCaseLetters[CHOOSE k \in 1..26 : LowerCaseLetters[k] = c]
    ELSE c

ToLowerCase(c) ==
    IF \E k \in 1..26 : UpperCaseLetters[k] = c
    THEN LowerCaseLetters[CHOOSE k \in 1..26 : UpperCaseLetters[k] = c]
    ELSE c

\* inflection.camelize(str, true) for a string without a slash, from one
\* character on: the parts between underscores are joined, the first part with
\* its first letter in lower case, every other part in lower case with its first
\* letter in upper case
RECURSIVE CamelizeFrom(_, _, _)
CamelizeFrom(str, atPartStart, inFirstPart) ==
    IF str = <<>> THEN <<>>
    ELSE IF str[1] = "_" THEN CamelizeFrom(Tail(str), TRUE, FALSE)
    ELSE LET c == IF atPartStart
                  THEN (IF inFirstPart THEN ToLowerCase(str[1]) ELSE ToUpperCase(str[1]))
                  ELSE (IF inFirstPart THEN str[1] ELSE ToLowerCase(str[1]))
         IN  <<c>> \o CamelizeFrom(Tail(str), FALSE, inFirstPart)

\* as camelCase_ without the replacement of the hyphens
CamelizeOnly(value) == CamelizeFrom(value, TRUE, TRUE)

\* camelCase_: value.replace(/-/g, '_'), camelized with a lower first letter
camelCase_(value) ==
    LET underscored == [k \in 1..Len(value) |-> IF value[k] = "-" THEN "_" ELSE value[k]]
    IN  CamelizeFrom(underscored, TRUE, TRUE)

\* parts.join('/')
RECURSIVE JoinSlash(_)
JoinSlash(parts) ==
    IF parts = <<>> THEN <<>>
    ELSE IF Len(parts) = 1 THEN parts[1]
    ELSE parts[1] \o <<"/">> \o JoinSlash(Tail(parts))

-----------------------------------------------------------------------------
(* Names the model uses. *)

kMiddlewareDirectoryPrefix == "^"

kParamDirectoryPrefix == "$"

all == <<"a", "l", "l">>

get == <<"g", "e", "t">>

delete == <<"d", "e", "l", "e", "t", "e">>

\* the verbs express.Router offers as registration methods, as far as the model
\* uses them, and 'all'
RouterMethods == {all, get, delete}

GetJs == get \o <<".", "j", "s">>

GetStarJs == get \o <<".", "s", "t", "a", "r", ".", "j", "s">>

AllStarJs == all \o <<".", "s", "t", "a", "r", ".", "j", "s">>

AllJs == all \o <<".", "j", "s">>

CaretGetJs == <<"^">> \o GetJs

CaretAllJs == <<"^">> \o AllJs

CaretGetStarJs == <<"^">> \o GetStarJs

OneGetJs == <<"1", ".">> \o GetJs

TwoDeleteJs == <<"2", ".">> \o delete \o <<".", "j", "s">>

TenGetJs == <<"1", "0", ".">> \o GetJs

\* names [a-z]+.js whose token is no method of the router
IndexJs == <<"i", "n", "d", "e", "x", ".", "j", "s">>

\* a name the pattern of sortRouteInfos_ does not match
GetJson == get \o <<".", "j", "s", "o", "n">>

AuthDir == <<"^", "a", "u", "t", "h">>

\* names of middlewares
HasAccountJs ==
    <<"h", "a", "s", "-", "a", "c", "c", "o", "u", "n", "t", ".", "j", "s">>

HasAccountUnderscoreJs ==
    <<"h", "a", "s", "_", "a", "c", "c", "o", "u", "n", "t", ".", "j", "s">>

MiscJs == <<"m", "i", "s", "c", ".", "j", "s">>

MiscTestJs == <<"m", "i", "s", "c", ".", "t", "e", "s", "t", ".", "j", "s">>

NotesMd == <<"n", "o", "t", "e", "s", ".", "m", "d">>

MiscDir == <<"m", "i", "s", "c">>

\* hidden entries
DotMiscDir == <<".", "m", "i", "s", "c">>

DotNotes == <<".", "n", "o", "t", "e", "s">>

IdDir == <<"$", "i", "d">>

UsersDir == <<"u", "s", "e", "r", "s">>

OwnersDir == <<"o", "w", "n", "e", "r", "s">>

-----------------------------------------------------------------------------
(* The file system: tree.dirs is the set of directories, each the sequence *)
(* of directory names leading to it from routesPath; tree.files is the set *)
(* of files, each a pair <<directory, file name>>.                         *)

\* as ListingOf for a listing that leaves out the entries whose name starts
\* with a dot
ListingWithoutHidden(fs, directory) ==
    LET Visible(names) == {n \in names : n[1] # "."}
    IN  [directory |-> directory,
         files |-> SortNames(Visible({f[2] : f \in {g \in fs.files : g[1] = directory}})),
         subDirectories |->
            SortNames(Visible({d[Len(d)] : d \in {e \in fs.dirs :
                        Len(e) = Len(directory) + 1 /\ SubSeq(e, 1, Len(directory)) = directory}}))]

\* dir-tools directoryListing: the regular files and the sub-directories of a
\* directory, each sorted
ListingOf(fs, directory) ==
    [directory |-> directory,
     files |-> SortNames({f[2] : f \in {g \in fs.files : g[1] = directory}}),
     subDirectories |->
        SortNames({d[Len(d)] : d \in {e \in fs.dirs :
                        Len(e) = Len(directory) + 1 /\ SubSeq(e, 1, Len(directory)) = directory}})]

\* ... below routesPath
directoryListing(directory) == ListingOf(tree, directory)

-----------------------------------------------------------------------------
(* Decoding of file names. *)

\* /^(\^)?(?:(\d+)\.)?([a-z]+)(\.star)?\.js$/.exec(fileName) and the routeInfo
\* built from its groups; matched is FALSE when exec returns null
DecodeFileName(directory, fileName) ==
    LET hasCaret == fileName # <<>> /\ fileName[1] = "^"
        s1 == IF hasCaret THEN Tail(fileName) ELSE fileName
        nDigits == DigitRun(s1)
        hasNumber == nDigits > 0 /\ Len(s1) > nDigits /\ s1[nDigits + 1] = "."
        s2 == IF hasNumber THEN Drop(s1, nDigits + 1) ELSE s1
        nLetters == LowerRun(s2)
        rest == Drop(s2, nLetters)
        star == rest = <<".", "s", "t", "a", "r", ".", "j", "s">>
    IN  [matched |-> nLetters > 0 /\ (star \/ rest = <<".", "j", "s">>),
         fileName |-> fileName,
         path |-> <<directory, fileName>>,
         hasMiddlewarePrefix |-> hasCaret,
         hasNumericPrefix |-> hasNumber,
         httpMethod |-> SubSeq(s2, 1, nLetters),
         isStar |-> star]

\* as PrioritizeFrom for a loop that does not test the prefixes
RECURSIVE SwapPrefixed(_, _)
SwapPrefixed(routeInfos, i) ==
    IF i >= Len(routeInfos) THEN routeInfos
    ELSE LET current == routeInfos[i]
             next == routeInfos[i + 1]
             needToSwap == next.isStar /\ current.httpMethod = next.httpMethod
         IN  IF needToSwap
             THEN SwapPrefixed([routeInfos EXCEPT ![i] = next, ![i + 1] = current], i + 2)
             ELSE SwapPrefixed(routeInfos, i + 1)

\* the loop of prioritizeStarRouteInfos_ from index i on
RECURSIVE PrioritizeFrom(_, _)
PrioritizeFrom(routeInfos, i) ==
    IF i >= Len(routeInfos) THEN routeInfos
    ELSE LET current == routeInfos[i]
             next == routeInfos[i + 1]
             needToSwap == /\ next.isStar
                           /\ current.httpMethod = next.httpMethod
                           /\ ~current.hasNumericPrefix
                           /\ ~next.hasNumericPrefix
                           /\ ~current.hasMiddlewarePrefix
                           /\ ~next.hasMiddlewarePrefix
         IN  IF needToSwap
             THEN PrioritizeFrom([routeInfos EXCEPT ![i] = next, ![i + 1] = current], i + 2)
             ELSE PrioritizeFrom(routeInfos, i + 1)

\* as prioritizeStarRouteInfos_ without its loop: the lexical order is kept
KeepLexicalOrder(routeInfos) == routeInfos

prioritizeStarRouteInfos_(routeInfos) == PrioritizeFrom(routeInfos, 1)

\* the routeInfos of the files that match, in the order of the listing
RECURSIVE DecodeAll(_, _)
DecodeAll(directory, files) ==
    IF files = <<>> THEN <<>>
    ELSE LET routeInfo == DecodeFileName(directory, files[1])
         IN  (IF routeInfo.matched THEN <<routeInfo>> ELSE <<>>)
                \o DecodeAll(directory, Tail(files))

\* as sortRouteInfos_ without the validation of step 1b
SortWithoutValidation(listing) ==
    [threw |-> FALSE,
     routeInfos |-> prioritizeStarRouteInfos_(DecodeAll(listing.directory, listing.files))]

\* sortRouteInfos_: threw is TRUE when a file has both the caret and .star
sortRouteInfos_(listing) ==
    LET routeInfos == DecodeAll(listing.directory, listing.files)
    IN  [threw |-> \E k \in 1..Len(routeInfos) :
                        routeInfos[k].hasMiddlewarePrefix /\ routeInfos[k].isStar,
         routeInfos |-> prioritizeStarRouteInfos_(routeInfos)]

-----------------------------------------------------------------------------
(* Handler modules.  What require(file) gives is one of                    *)
(*   "fn"       a factory that returns one callable                        *)
(*   "array"    a factory that returns an array of two callables           *)
(*   "splice"   a route factory that removes the first entry of the        *)
(*              routeMiddlewares it is given and returns one callable      *)
(*              (test-data/routing/skills/patch.js)                        *)
(*   "reverse"  a route factory that reverses routeMiddlewares in place    *)
(*   "invalid"  a factory that returns neither a function nor an array     *)
(*   "badarray" a factory that returns an array of a callable and a value  *)
(*              that is not a function                                     *)
(*   "nofn"     a module that does not export a function                   *)
(* It is read when the file is first required and is the same from then    *)
(* on.  A callable is named by the file whose factory returned it and its  *)
(* position in the returned array.                                         *)

\* a middleware factory is called without routeMiddlewares
MiddlewareModules == {"fn", "array", "invalid", "nofn", "badarray"}

RouteModules == MiddlewareModules \cup {"splice", "reverse"}

\* require(file): what the file can turn out to export
Require(file, kinds) == IF file \in DOMAIN modules THEN {modules[file]} ELSE kinds

Cached(file, exported) ==
    [f \in DOMAIN modules \cup {file} |-> IF f = file THEN exported ELSE modules[f]]

Callable(file, k) == [file |-> file, k |-> k]

\* a value returned in an array by the factory of file that is not a function
NotCallable(file) == [file |-> file, k |-> 0]

\* typeof value === 'function'
IsFunction(value) == value.k > 0

\* typeof handlerModule === 'function'
ExportsFunction(exported) == exported # "nofn"

\* the value handlerModule(app, middlewares, routeMiddlewares) returns
FactoryReturn(file, exported) ==
    CASE exported = "array" ->
            [type |-> "array", items |-> <<Callable(file, 1), Callable(file, 2)>>]
      [] exported = "badarray" ->
            [type |-> "array", items |-> <<Callable(file, 1), NotCallable(file)>>]
      [] exported = "invalid" ->
            [type |-> "other", items |-> <<>>]
      [] OTHER ->
            [type |-> "function", items |-> <<Callable(file, 1)>>]

Reverse(seq) == [k \in 1..Len(seq) |-> seq[Len(seq) + 1 - k]]

\* routeMiddlewares as the factory leaves it
FactoryLeaves(exported, routeMiddlewares) ==
    CASE exported = "splice" /\ routeMiddlewares # <<>> -> Tail(routeMiddlewares)
      [] exported = "reverse" -> Reverse(routeMiddlewares)
      [] OTHER -> routeMiddlewares

\* toArray: threw is TRUE when the value is neither a function nor an array
toArray(functionOrArray) ==
    [threw |-> functionOrArray.type \notin {"function", "array"},
     handlers |-> functionOrArray.items]

-----------------------------------------------------------------------------
(* The two stacks. *)

EmptyMiddlewaresStack == [m \in {} |-> <<>>]

pushMwStack_(httpMethod, handlers) ==
    [m \in DOMAIN middlewaresStack \cup {httpMethod} |->
        IF m = httpMethod
        THEN (IF m \in DOMAIN middlewaresStack THEN middlewaresStack[m] ELSE <<>>)
                \o <<handlers>>
        ELSE middlewaresStack[m]]

\* Array.prototype.pop: an empty array stays empty
Pop(seq) == IF seq = <<>> THEN <<>> ELSE SubSeq(seq, 1, Len(seq) - 1)

\* as popMwStack_ without the pop
LeaveOnStack(mwStack, httpMethod) == mwStack

popMwStack_(mwStack, httpMethod) == [mwStack EXCEPT ![httpMethod] = Pop(@)]

\* popMwRouteInfosOffStack_: one popMwStack_ for each routeInfo
RECURSIVE PopAll(_, _)
PopAll(mwStack, mwRouteInfos) ==
    IF mwRouteInfos = <<>> THEN mwStack
    ELSE PopAll(popMwStack_(mwStack, mwRouteInfos[1].httpMethod), Tail(mwRouteInfos))

\* as popMwRouteInfosOffStack_ popping for the first routeInfo only
PopFirstOnly(mwRouteInfos) ==
    IF mwRouteInfos = <<>> THEN middlewaresStack
    ELSE popMwStack_(middlewaresStack, mwRouteInfos[1].httpMethod)

popMwRouteInfosOffStack_(mwRouteInfos) == PopAll(middlewaresStack, mwRouteInfos)

routeString_(isStar) ==
    <<"/">> \o JoinSlash(routeStack) \o (IF isStar THEN <<"*">> ELSE <<>>)

\* as copyFromMiddlewareStackTo_ taking the first callable of each frame only
RECURSIVE CopyFirstOfEach(_, _)
CopyFirstOfEach(target, middlewareSubStack) ==
    IF middlewareSubStack = <<>> THEN target
    ELSE CopyFirstOfEach(target \o SubSeq(middlewareSubStack[1], 1, 1),
                         Tail(middlewareSubStack))

\* copyFromMiddlewareStackTo_: target followed by the callables of every frame
RECURSIVE copyFromMiddlewareStackTo_(_, _)
copyFromMiddlewareStackTo_(target, middlewareSubStack) ==
    IF middlewareSubStack = <<>> THEN target
    ELSE copyFromMiddlewareStackTo_(target \o middlewareSubStack[1], Tail(middlewareSubStack))

\* as routeMiddlewares_ without the special case of an 'all' route
WithoutAllCase(httpMethod) ==
    LET forAll == IF all \in DOMAIN middlewaresStack
                  THEN copyFromMiddlewareStackTo_(<<>>, middlewaresStack[all])
                  ELSE <<>>
    IN  IF httpMethod \in DOMAIN middlewaresStack
        THEN copyFromMiddlewareStackTo_(forAll, middlewaresStack[httpMethod])
        ELSE forAll

routeMiddlewares_(httpMethod) ==
    LET forAll == IF all \in DOMAIN middlewaresStack
                  THEN copyFromMiddlewareStackTo_(<<>>, middlewaresStack[all])
                  ELSE <<>>
    IN  IF httpMethod # all /\ httpMethod \in DOMAIN middlewaresStack
        THEN copyFromMiddlewareStackTo_(forAll, middlewaresStack[httpMethod])
        ELSE forAll

\* as RouteChunk without the conversion of a parameter directory
KeepDollar(subDirectory) ==
    IF subDirectory[1] = kMiddlewareDirectoryPrefix THEN <<>> ELSE subDirectory

\* the route chunk recurseSubDirectories_ pushes for a sub-directory, <<>> for
\* none (a middleware directory)
RouteChunk(subDirectory) ==
    IF subDirectory[1] = kMiddlewareDirectoryPrefix THEN <<>>
    ELSE IF subDirectory[1] = kParamDirectoryPrefix THEN <<":">> \o Drop(subDirectory, 1)
    ELSE subDirectory

-----------------------------------------------------------------------------
(* Activation records of routifyRecurse_.  pc is the statement a record is *)
(* at, i the iteration of that statement's forEach.                        *)

\* as PhaseOrder for a walk that goes into the sub-directories before it
\* generates the routes of the directory
RecurseBeforeGenerate == <<"pushMw", "recurse", "generate", "popMw", "return">>

PhaseOrder == <<"pushMw", "generate", "recurse", "popMw", "return">>

Iterations(frame, pc) ==
    CASE pc = "pushMw" -> Len(frame.mwRouteInfos)
      [] pc = "generate" -> Len(frame.normalRouteInfos)
      [] pc = "recurse" -> Len(frame.subDirectories)
      [] pc = "popMw" -> IF frame.mwRouteInfos = <<>> THEN 0 ELSE 1
      [] pc = "return" -> 1

\* the first statement from PhaseOrder[k] on that has something to do
RECURSIVE EnterPhase(_, _)
EnterPhase(frame, k) ==
    IF Iterations(frame, PhaseOrder[k]) > 0
    THEN [frame EXCEPT !.pc = PhaseOrder[k], !.i = 1]
    ELSE EnterPhase(frame, k + 1)

Advance(frame) ==
    IF frame.i < Iterations(frame, frame.pc)
    THEN [frame EXCEPT !.i = @ + 1]
    ELSE EnterPhase(frame, 1 + CHOOSE k \in 1..Len(PhaseOrder) : PhaseOrder[k] = frame.pc)

\* the record of a call routifyRecurse_(directory, isMiddlewareDirectory); the
\* entry fields remember the two stacks as they are when the call is made
NewFrame(directory, isMiddlewareDirectory, mwStack, rtStack) ==
    [directory |-> directory,
     isMiddlewareDirectory |-> isMiddlewareDirectory,
     pc |-> "list",
     i |-> 1,
     routeInfos |-> <<>>,
     mwRouteInfos |-> <<>>,
     normalRouteInfos |-> <<>>,
     subDirectories |-> <<>>,
     routeChunk |-> <<>>,
     entryMiddlewaresStack |-> mwStack,
     entryRouteStack |-> rtStack]

Top == callStack[Len(callStack)]

ReplaceTop(frame) == [callStack EXCEPT ![Len(callStack)] = frame]

Running(pc) == status = "running" /\ callStack # <<>> /\ Top.pc = pc

\* as Throws for a walk that catches the exception and goes on with the next
\* file or directory
ContinuesAfterError ==
    /\ status' = status
    /\ callStack' = IF Top.pc = "list"
                    THEN ReplaceTop([Top EXCEPT !.pc = "return"])
                    ELSE ReplaceTop(Advance(Top))

\* an exception leaves routify: nothing catches it, nothing is restored
Throws == status' = "threw" /\ callStack' = <<>>

-----------------------------------------------------------------------------
(* Logging. *)

\* this.log_(...): logger_.info is called when a logger was configured
log_(event) == IF options.logger THEN Append(log, event) ELSE log

-----------------------------------------------------------------------------
(* loadMiddlewares.  The object it builds is a function from key paths to    *)
(* nodes: the node at <<>> is the object itself, the node at <<k1, ..., kn>>  *)
(* is the value of its property k1. ... .kn, an object or the callable that  *)
(* the factory of a file returned (a function is an object too, and can be   *)
(* given properties).                                                      *)

ObjectNode == [type |-> "object", file |-> <<>>]

FunctionNode(file) == [type |-> "function", file |-> file]

\* before loadMiddlewares
NoMiddlewares == [keys \in {} |-> ObjectNode]

\* let middlewares = {}
EmptyObject == [keys \in {<<>>} |-> ObjectNode]

\* no listing yet
NoListing == [directory |-> <<>>, files |-> <<>>, subDirectories |-> <<>>]

\* traverseDirectory and the callback of loadMiddlewares: the directories still
\* to traverse, the listing the callback was last called with and the
\* directories it was called for so far, and where the callback is
NoTraversal ==
    [directories |-> <<>>, directory |-> <<>>, ref |-> <<>>, files |-> <<>>,
     listing |-> NoListing, visited |-> <<>>]

\* fs.readdirSync(directory) throws: there is no such directory
ReaddirSyncThrows(fs, directory) == directory \notin fs.dirs

\* as RecurseInto for a walk that finishes a level before it goes down
RecurseLater(subDirectories, pending) == pending \o subDirectories

\* the forEach of traverseDirectory over listing.subDirectories: each is
\* traversed, with all that is beneath it, before the next and before what the
\* callers still have to traverse
RecurseInto(subDirectories, pending) == subDirectories \o pending

\* what require(middlewarePath) can give: a factory that returns a callable,
\* or a module that does not export a function
MiddlewareFactories == {"fn", "nofn"}

\* ref[key] = node: the value that was there, and all of its properties, are gone
AssignProperty(mws, keys, node) ==
    LET kept == {p \in DOMAIN mws : ~(Len(keys) <= Len(p) /\ SubSeq(p, 1, Len(keys)) = keys)}
    IN  [p \in kept \cup {keys} |-> IF p = keys THEN node ELSE mws[p]]

\* the forEach over directoriesToMiddleware (lines 250-256): ref goes down one
\* key for each directory, which becomes an empty object when it is not there
RECURSIVE DescendTo(_, _, _)
DescendTo(mws, ref, directoriesToMiddleware) ==
    IF directoriesToMiddleware = <<>> THEN [middlewares |-> mws, ref |-> ref]
    ELSE LET camelName == camelCase_(directoriesToMiddleware[1])
             next == Append(ref, camelName)
         IN  IF next \in DOMAIN mws
             THEN DescendTo(mws, next, Tail(directoriesToMiddleware))
             ELSE DescendTo(AssignProperty(mws, next, ObjectNode), next,
                            Tail(directoriesToMiddleware))

\* fileName.endsWith('.js')
EndsWithJs(fileName) ==
    Len(fileName) >= 3 /\ SubSeq(fileName, Len(fileName) - 2, Len(fileName)) = <<".", "j", "s">>

\* the files the callback loads for a listing: none when a function is where
\* the object of the directory should be, the .js files otherwise
MiddlewareFiles(listing, sameNameForFileAndSubDirectory) ==
    IF sameNameForFileAndSubDirectory THEN <<>> ELSE SelectSeq(listing.files, EndsWithJs)

\* path.basename(fileName, '.js')
Basename(fileName) ==
    IF EndsWithJs(fileName) /\ Len(fileName) > 3
    THEN SubSeq(fileName, 1, Len(fileName) - 3)
    ELSE fileName

\* the name a function has when its module gives it one
SpecialName == <<"s", "p", "e", "c", "i", "a", "l">>

\* ref[middlewareName].name as the factory returned it: '' for an anonymous function
OwnName(middlewarePath) ==
    IF middlewarePath \in middlewaresFs.named THEN SpecialName ELSE <<>>

\* a mutation of AutoName that renames every function
AlwaysRename(ownName, middlewareName) ==
    IF options.autoNameAnonymousMiddleware THEN middlewareName ELSE ownName

\* the name after lines 283-284: defineProperty when the option is set and the
\* function has no name
AutoName(ownName, middlewareName) ==
    IF options.autoNameAnonymousMiddleware /\ ownName = <<>> THEN middlewareName ELSE ownName

\* loadMiddlewares up to the call of traverseDirectory (lines 238-243)
LoadMiddlewares ==
    /\ status = "constructed"
    /\ middlewares' = EmptyObject
    /\ IF ~middlewaresFs.given
       THEN status' = "idle" /\ UNCHANGED traversal
       ELSE /\ status' = "loading"
            /\ traversal' = [NoTraversal EXCEPT !.directories = << <<>> >>]
    /\ UNCHANGED <<tree, modules, callStack, middlewaresStack, routeStack, internalRefs,
                   router, loaded, options, routesPath, log, middlewaresFs, mwLoaded,
                   functionName, dryRoutes>>
    /\ UNCHANGED callVars

\* traverseDirectory for the next directory: its listing, the callback of
\* loadMiddlewares up to the forEach over the files (lines 244-269), and the
\* sub-directories to traverse once the callback is done
TraverseDirectory ==
    /\ status = "loading"
    /\ traversal.files = <<>>
    /\ traversal.directories # <<>>
    /\ LET directory == Head(traversal.directories)
           listing == ListingOf(middlewaresFs, directory)
           descended == DescendTo(middlewares, <<>>, directory)
           sameNameForFileAndSubDirectory ==
                descended.middlewares[descended.ref].type = "function"
           subDirectories ==
                [k \in 1..Len(listing.subDirectories) |->
                    Append(directory, listing.subDirectories[k])]
       IN  IF ReaddirSyncThrows(middlewaresFs, directory)
           THEN /\ status' = "threw"
                /\ UNCHANGED <<middlewares, traversal, log>>
           ELSE /\ status' = status
                /\ middlewares' = descended.middlewares
                /\ traversal' =
                     [directories |-> RecurseInto(subDirectories, Tail(traversal.directories)),
                      directory |-> directory,
                      ref |-> descended.ref,
                      files |-> MiddlewareFiles(listing, sameNameForFileAndSubDirectory),
                      listing |-> listing,
                      visited |-> Append(traversal.visited, directory)]
                /\ log' = IF sameNameForFileAndSubDirectory
                          THEN log_([message |-> "Ignoring middleware directory",
                                     path |-> directory,
                                     httpMethod |-> <<>>,
                                     routeString |-> <<>>])
                          ELSE log
    /\ UNCHANGED <<tree, modules, callStack, middlewaresStack, routeStack,
                   internalRefs, router, loaded, options, routesPath, middlewaresFs, mwLoaded,
                   functionName, dryRoutes>>
    /\ UNCHANGED callVars

\* one iteration of the forEach over the files of a listing (lines 270-285);
\* the event of line 281 names the middleware by the dotted keys of its file
LoadMiddleware ==
    /\ status = "loading"
    /\ traversal.files # <<>>
    /\ LET middlewareFileName == Head(traversal.files)
           middlewarePath == <<traversal.directory, middlewareFileName>>
           middlewareName == camelCase_(Basename(middlewareFileName))
       IN  \E exported \in MiddlewareFactories :
             /\ mwLoaded' = Append(mwLoaded, middlewarePath)
             /\ IF ~ExportsFunction(exported)
                THEN /\ status' = "threw"
                     /\ UNCHANGED <<middlewares, traversal, log, functionName>>
                ELSE /\ functionName' =
                          [f \in DOMAIN functionName \cup {middlewarePath} |->
                              IF f = middlewarePath
                              THEN AutoName(OwnName(middlewarePath), middlewareName)
                              ELSE functionName[f]]
                     /\ middlewares' = AssignProperty(middlewares,
                                            Append(traversal.ref, middlewareName),
                                            FunctionNode(middlewarePath))
                     /\ traversal' = [traversal EXCEPT !.files = Tail(@)]
                     /\ log' = log_([message |-> "Initialized middleware",
                                     path |-> middlewarePath,
                                     httpMethod |-> <<>>,
                                     routeString |-> <<>>])
                     /\ status' = status
    /\ UNCHANGED <<tree, modules, callStack, middlewaresStack, routeStack, internalRefs,
                   router, loaded, options, routesPath, middlewaresFs, dryRoutes>>
    /\ UNCHANGED callVars

\* loadMiddlewares returns the object (line 288)
LoadMiddlewaresReturn ==
    /\ status = "loading"
    /\ traversal.files = <<>>
    /\ traversal.directories = <<>>
    /\ status' = "idle"
    /\ UNCHANGED <<tree, modules, callStack, middlewaresStack, routeStack, internalRefs,
                   router, loaded, options, routesPath, log, middlewaresFs, middlewares,
                   traversal, mwLoaded, functionName, dryRoutes>>
    /\ UNCHANGED callVars

-----------------------------------------------------------------------------
(* The inputs: which trees and which modules routify is run on. *)

\* the sets of at most n elements of S
RECURSIVE SubsetsUpTo(_, _)
SubsetsUpTo(S, n) ==
    IF n = 0 THEN {{}}
    ELSE LET smaller == SubsetsUpTo(S, n - 1)
         IN  smaller \cup {p \cup {x} : p \in smaller, x \in S}

Parent(dir) == SubSeq(dir, 1, Len(dir) - 1)

\* the trees of at most maxDirs directories, one or two levels below the root
\* and named from dirNames, with at most maxFiles files in all, named from
\* fileNames
TreesOver(dirNames, fileNames, maxDirs, maxFiles) ==
    LET dirPaths == {<<a>> : a \in dirNames} \cup {<<a, b>> : a \in dirNames, b \in dirNames}
    IN  UNION {{[dirs |-> D \cup {<<>>}, files |-> F] :
                    F \in SubsetsUpTo((D \cup {<<>>}) \X fileNames, maxFiles)} :
               D \in {E \in SubsetsUpTo(dirPaths, maxDirs) :
                            \A d \in E : Len(d) = 1 \/ Parent(d) \in E}}

\* trees of every kind of directory and of file name, few files
Trees ==
    TreesOver({AuthDir, IdDir, UsersDir},
              {GetJs, GetStarJs, AllJs, CaretGetJs, CaretAllJs, OneGetJs, CaretGetStarJs},
              MaxDirs, MaxFiles)

\* trees of nested middleware scopes and sibling directories
ScopeTrees ==
    TreesOver({AuthDir, UsersDir}, {GetJs, AllJs, CaretGetJs, CaretAllJs},
              MaxScopeDirs, MaxScopeFiles)

\* trees of nested and sibling directories of every kind, with plain and
\* wildcard routes
OrderTrees == TreesOver({AuthDir, IdDir, UsersDir}, {GetJs, GetStarJs}, MaxOrderDirs, MaxOrderFiles)

\* trees of one directory, users, that holds up to MaxFlatFiles files
FlatTrees ==
    {[dirs |-> {<<>>, <<UsersDir>>}, files |-> {<<UsersDir>>} \X F] :
        F \in SubsetsUpTo({GetJs, GetStarJs, AllJs, AllStarJs, CaretGetJs,
                           OneGetJs, TwoDeleteJs, TenGetJs}, MaxFlatFiles)}

\* trees with files that are no routes, next to routes and middlewares
NameTrees ==
    TreesOver({AuthDir, UsersDir}, {GetJs, TwoDeleteJs, CaretGetJs, IndexJs, GetJson},
              MaxNameDirs, MaxNameFiles)

\* the middlewares of the specifications of routify: one file
DocMiddlewares ==
    [given |-> TRUE, dirs |-> {<<>>}, files |-> {<< <<>>, HasAccountJs >>}, named |-> {}]

\* no middlewaresPath
NoMiddlewaresPath == [given |-> FALSE, dirs |-> {}, files |-> {}, named |-> {}]

\* middlewares with names that share a key, with a directory named as a file, and
\* with files that are no middlewares
MiddlewaresFamily ==
    {NoMiddlewaresPath} \cup
    {[given |-> TRUE, dirs |-> t.dirs, files |-> t.files, named |-> {}] :
        t \in TreesOver({MiscDir, UsersDir},
                        {MiscJs, HasAccountJs, HasAccountUnderscoreJs, MiscTestJs, NotesMd},
                        MaxMiddlewareDirs, MaxMiddlewareFiles)}

\* a middlewaresPath that does not exist
NonexistentMiddlewaresPath == [given |-> TRUE, dirs |-> {}, files |-> {}, named |-> {}]

\* directories with hidden entries, with files that are no modules, nested and
\* side by side, and a path that does not exist
ListingFamily ==
    {NonexistentMiddlewaresPath} \cup
    {[given |-> TRUE, dirs |-> t.dirs, files |-> t.files, named |-> {}] :
        t \in TreesOver({MiscDir, DotMiscDir}, {MiscJs, NotesMd, DotNotes},
                        MaxListingDirs, MaxListingFiles)}

\* middlewares of which some modules name the function they give
NamingFamily ==
    UNION {{[given |-> TRUE, dirs |-> t.dirs, files |-> t.files, named |-> n] :
               n \in SUBSET t.files} :
           t \in TreesOver({MiscDir}, {MiscJs, HasAccountJs}, MaxNamingDirs, MaxNamingFiles)}

\* a route, and beside it a middleware directory with a route beneath it
CallsTree ==
    [dirs |-> {<<>>, <<AuthDir>>, <<AuthDir, UsersDir>>},
     files |-> {<< <<>>, GetJs >>, << <<AuthDir>>, GetJs >>, << <<AuthDir, UsersDir>>, GetJs >>}]

\* a routes tree with a middleware directory and one route beneath it
SmallRoutesTree ==
    [dirs |-> {<<>>, <<AuthDir>>, <<AuthDir, UsersDir>>},
     files |-> {<< <<AuthDir>>, GetJs >>, << <<AuthDir, UsersDir>>, GetJs >>}]

\* the tree of section 8 of the specification: /owners/get.js,
\* /owners/$id/get.js, /^auth/all.js, /^auth/users/get.js
RoundTripTree ==
    [dirs |-> {<<>>, <<OwnersDir>>, <<OwnersDir, IdDir>>, <<AuthDir>>, <<AuthDir, UsersDir>>},
     files |-> {<<<<OwnersDir>>, GetJs>>, <<<<OwnersDir, IdDir>>, GetJs>>,
                <<<<AuthDir>>, AllJs>>, <<<<AuthDir, UsersDir>>, GetJs>>}]

-----------------------------------------------------------------------------
(* The state after construction (constructor, lines 216-228). *)

\* options.methods: not given, or an array of verbs
NoMethods == [given |-> FALSE, list |-> <<>>]

Methods(list) == [given |-> TRUE, list |-> list]

\* a logger and nothing else
LoggerOnly == [logger |-> TRUE, methods |-> NoMethods, autoNameAnonymousMiddleware |-> FALSE]

\* with and without a logger, with and without a list of methods
OptionsFamily ==
    [logger : BOOLEAN, methods : {NoMethods, Methods(<<get>>), Methods(<<get, delete>>)},
     autoNameAnonymousMiddleware : {FALSE}]

\* with and without autoNameAnonymousMiddleware
NamingOptions ==
    [logger : {TRUE}, methods : {NoMethods}, autoNameAnonymousMiddleware : BOOLEAN]

\* no call of routify yet
NoCall ==
    [status |-> "none", router |-> <<>>, routesPath |-> "null",
     middlewaresStack |-> EmptyMiddlewaresStack]

\* the state after construction, when the caller calls routify that many times
InitTimes(trees, optionsFamily, middlewaresFamily, times) ==
    /\ tree \in trees
    /\ callsLeft \in times
    /\ previous = NoCall
    /\ options \in optionsFamily
    /\ middlewaresFs \in middlewaresFamily
    /\ middlewares = NoMiddlewares
    /\ traversal = NoTraversal
    /\ mwLoaded = <<>>
    /\ functionName = <<>>
    /\ dryRoutes = <<>>
    /\ routesPath = "null"
    /\ log = <<>>
    /\ modules = <<>>
    /\ status = "constructed"
    /\ callStack = <<>>
    /\ middlewaresStack = EmptyMiddlewaresStack
    /\ routeStack = <<>>
    /\ internalRefs = "null"
    /\ router = <<>>
    /\ loaded = <<>>

\* routify is called once
InitFrom(trees, optionsFamily, middlewaresFamily) ==
    InitTimes(trees, optionsFamily, middlewaresFamily, {1})

InitWith(trees, optionsFamily) == InitFrom(trees, optionsFamily, {DocMiddlewares})

InitOn(trees) == InitWith(trees, {LoggerOnly})

Init == InitOn(Trees)

-----------------------------------------------------------------------------
(* The steps of routify. *)

\* the values routify is called with as routesPath: none, the empty string, a
\* path that does not exist, the path of the tree
RoutesPaths == {"undefined", "", "nonexistent", "routes"}

\* as ReaddirThrows for a readdirSync that lists the tree whatever routesPath is
ReaddirLenient(directory) == directory \notin tree.dirs

\* fs.readdirSync(directory) throws: directory, a path below routesPath, does
\* not name a directory
ReaddirThrows(directory) == routesPath # "routes" \/ directory \notin tree.dirs

\* this.router_[httpMethod](routeString, ...callbacks) throws: the router has
\* no such method, or express is handed a callback that is not a function
RouterCallThrows(httpMethod, callbacks) ==
    \/ httpMethod \notin RouterMethods
    \/ \E k \in 1..Len(callbacks) : ~IsFunction(callbacks[k])

\* as NewMiddlewaresStack for a routify that goes on with the stack it has
KeptMiddlewaresStack == middlewaresStack

\* this.middlewaresStack_ = {} (line 310)
NewMiddlewaresStack == EmptyMiddlewaresStack

\* routify, up to the call of routifyRecurse_ (lines 300-312); it is called with
\* the middlewares loadMiddlewares returned, as index.js calls it
Routify ==
    /\ \/ status = "idle"
       \/ status \in {"returned", "threw"} /\ routesPath # "null"
    /\ callsLeft > 0
    /\ callsLeft' = callsLeft - 1
    /\ previous' = IF routesPath = "null"
                   THEN previous
                   ELSE [status |-> status, router |-> router, routesPath |-> routesPath,
                         middlewaresStack |-> middlewaresStack]
    /\ \E path \in RoutesPaths : routesPath' = path
    /\ status' = "running"
    /\ internalRefs' = "set"
    /\ router' = <<>>
    /\ loaded' = <<>>
    /\ middlewaresStack' = NewMiddlewaresStack
    /\ routeStack' = <<>>
    /\ callStack' = <<NewFrame(<<>>, FALSE, NewMiddlewaresStack, <<>>)>>
    /\ UNCHANGED <<tree, modules, options, log>>
    /\ UNCHANGED <<mwVars, dryRoutes>>

\* as LegitimateMwRouteInfos without the test of the numeric prefix
AllowNumericPrefix(routeInfos) ==
    LET IsLegitimate(x) == ~x.isStar /\ ~x.hasMiddlewarePrefix
    IN  SelectSeq(routeInfos, IsLegitimate)

\* handleRouteMiddlewareDirectory_, step 1: only legitimately named middlewares
LegitimateMwRouteInfos(routeInfos) ==
    LET IsLegitimate(x) == ~x.hasNumericPrefix /\ ~x.isStar /\ ~x.hasMiddlewarePrefix
    IN  SelectSeq(routeInfos, IsLegitimate)

\* handleRouteDirectory_, step 1: the routeInfos prefixed with the caret ...
CaretRouteInfos(sortedRouteInfos) ==
    LET IsMw(x) == x.hasMiddlewarePrefix
    IN  SelectSeq(sortedRouteInfos, IsMw)

\* as NormalRouteInfos without the split
EveryRouteInfo(sortedRouteInfos) == sortedRouteInfos

\* ... and the normal callback handlers
NormalRouteInfos(sortedRouteInfos) ==
    LET IsNormal(x) == ~x.hasMiddlewarePrefix
    IN  SelectSeq(sortedRouteInfos, IsNormal)

\* routifyRecurse_: the listing, sortRouteInfos_, and the selection of the
\* routeInfos at the head of handleRouteMiddlewareDirectory_ / handleRouteDirectory_
RoutifyRecurse ==
    /\ Running("list")
    /\ LET listing == directoryListing(Top.directory)
           sorted == sortRouteInfos_(listing)
           frame == [Top EXCEPT
                        !.routeInfos = sorted.routeInfos,
                        !.mwRouteInfos =
                            IF Top.isMiddlewareDirectory
                            THEN LegitimateMwRouteInfos(sorted.routeInfos)
                            ELSE CaretRouteInfos(sorted.routeInfos),
                        !.normalRouteInfos =
                            IF Top.isMiddlewareDirectory
                            THEN <<>>
                            ELSE NormalRouteInfos(sorted.routeInfos),
                        !.subDirectories = listing.subDirectories]
       IN  IF ReaddirThrows(Top.directory) \/ sorted.threw
           THEN Throws
           ELSE status' = status /\ callStack' = ReplaceTop(EnterPhase(frame, 1))
    /\ UNCHANGED <<tree, modules, middlewaresStack, routeStack, internalRefs, router, loaded,
                   options, routesPath, log>>
    /\ UNCHANGED <<mwVars, dryRoutes>>
    /\ UNCHANGED callVars

\* one iteration of the forEach of pushMwRouteInfosOnStack_
PushMwRouteInfoOnStack ==
    /\ Running("pushMw")
    /\ LET routeInfo == Top.mwRouteInfos[Top.i]
       IN  \E exported \in Require(routeInfo.path, MiddlewareModules) :
             LET returned == toArray(FactoryReturn(routeInfo.path, exported))
             IN  /\ modules' = Cached(routeInfo.path, exported)
                 /\ loaded' = Append(loaded, routeInfo.path)
                 /\ IF ~ExportsFunction(exported) \/ returned.threw
                    THEN /\ log' = log_([message |-> "Error while loading middleware",
                                         path |-> routeInfo.path,
                                         httpMethod |-> routeInfo.httpMethod,
                                         routeString |-> <<>>])
                         /\ Throws
                         /\ UNCHANGED middlewaresStack
                    ELSE /\ middlewaresStack' =
                                pushMwStack_(routeInfo.httpMethod, returned.handlers)
                         /\ status' = status
                         /\ callStack' = ReplaceTop(Advance(Top))
                         /\ UNCHANGED log
    /\ UNCHANGED <<tree, routeStack, internalRefs, router, options, routesPath>>
    /\ UNCHANGED <<mwVars, dryRoutes>>
    /\ UNCHANGED callVars

\* as SpreadCallbacks for a call that hands the router the handlers only
HandlersOnly(routeMiddlewares, handlers) == handlers

\* the callbacks of the router call (line 582): ...routeMiddlewares, ...handlers
SpreadCallbacks(routeMiddlewares, handlers) == routeMiddlewares \o handlers

\* one iteration of the forEach of generateRoutes_.  A registration records,
\* besides the arguments of the router call, the file it comes from and the
\* routeMiddlewares array as it was handed to the factory.
GenerateRoute ==
    /\ Running("generate")
    /\ LET routeInfo == Top.normalRouteInfos[Top.i]
           routeString == routeString_(routeInfo.isStar)
           routeMiddlewares == routeMiddlewares_(routeInfo.httpMethod)
       IN  \E exported \in Require(routeInfo.path, RouteModules) :
             LET returned == toArray(FactoryReturn(routeInfo.path, exported))
                 left == FactoryLeaves(exported, routeMiddlewares)
             IN  /\ modules' = Cached(routeInfo.path, exported)
                 /\ loaded' = Append(loaded, routeInfo.path)
                 /\ IF ~ExportsFunction(exported) \/ returned.threw
                    THEN /\ log' = log_([message |-> "Error while loading route",
                                         path |-> routeInfo.path,
                                         httpMethod |-> routeInfo.httpMethod,
                                         routeString |-> routeString])
                         /\ Throws
                         /\ UNCHANGED router
                    ELSE IF RouterCallThrows(routeInfo.httpMethod,
                                             SpreadCallbacks(left, returned.handlers))
                    THEN Throws /\ UNCHANGED <<router, log>>
                    ELSE /\ router' = Append(router,
                              [httpMethod |-> routeInfo.httpMethod,
                               routeString |-> routeString,
                               callbacks |-> SpreadCallbacks(left, returned.handlers),
                               handlers |-> returned.handlers,
                               file |-> routeInfo.path,
                               given |-> routeMiddlewares])
                         /\ log' = log_([message |-> "Created route",
                                         path |-> <<>>,
                                         httpMethod |-> routeInfo.httpMethod,
                                         routeString |-> routeString])
                         /\ status' = status
                         /\ callStack' = ReplaceTop(Advance(Top))
    /\ UNCHANGED <<tree, middlewaresStack, routeStack, internalRefs, options, routesPath>>
    /\ UNCHANGED <<mwVars, dryRoutes>>
    /\ UNCHANGED callVars

\* one iteration of the forEach of recurseSubDirectories_, up to the call of
\* routifyRecurse_
RecurseSubDirectory ==
    /\ Running("recurse")
    /\ LET subDirectory == Top.subDirectories[Top.i]
           nextDirectory == Append(Top.directory, subDirectory)
           subDirIsMiddlewareDirectory == subDirectory[1] = kMiddlewareDirectoryPrefix
           routeChunk == RouteChunk(subDirectory)
           pushed == IF subDirIsMiddlewareDirectory
                     THEN routeStack
                     ELSE Append(routeStack, routeChunk)
       IN  /\ routeStack' = pushed
           /\ callStack' = Append(ReplaceTop([Top EXCEPT !.routeChunk = routeChunk]),
                                  NewFrame(nextDirectory, subDirIsMiddlewareDirectory,
                                           middlewaresStack, pushed))
    /\ UNCHANGED <<tree, modules, status, middlewaresStack, internalRefs, router, loaded,
                   options, routesPath, log>>
    /\ UNCHANGED <<mwVars, dryRoutes>>
    /\ UNCHANGED callVars

\* popMwRouteInfosOffStack_ at the end of handleRoute(Middleware)Directory_
PopMwRouteInfosOffStack ==
    /\ Running("popMw")
    /\ middlewaresStack' = popMwRouteInfosOffStack_(Top.mwRouteInfos)
    /\ callStack' = ReplaceTop(Advance(Top))
    /\ UNCHANGED <<tree, modules, status, routeStack, internalRefs, router, loaded,
                   options, routesPath, log>>
    /\ UNCHANGED <<mwVars, dryRoutes>>
    /\ UNCHANGED callVars

\* routifyRecurse_ returns; in the caller recurseSubDirectories_ pops the route
\* chunk it pushed (lines 520-522) and goes on with the next sub-directory
ReturnFromRecurse ==
    /\ Running("return")
    /\ IF Len(callStack) = 1
       THEN callStack' = <<>> /\ UNCHANGED routeStack
       ELSE LET caller == callStack[Len(callStack) - 1]
            IN  /\ routeStack' = IF caller.routeChunk # <<>> THEN Pop(routeStack) ELSE routeStack
                /\ callStack' = [SubSeq(callStack, 1, Len(callStack) - 1)
                                    EXCEPT ![Len(callStack) - 1] =
                                        Advance([caller EXCEPT !.routeChunk = <<>>])]
    /\ UNCHANGED <<tree, modules, status, middlewaresStack, internalRefs, router, loaded,
                   options, routesPath, log>>
    /\ UNCHANGED <<mwVars, dryRoutes>>
    /\ UNCHANGED callVars

\* routify after the walk (lines 314-320): the internal references are dropped
\* and the router is returned
RoutifyReturn ==
    /\ status = "running"
    /\ callStack = <<>>
    /\ status' = "returned"
    /\ internalRefs' = "null"
    /\ middlewaresStack' = EmptyMiddlewaresStack
    /\ routeStack' = <<>>
    /\ UNCHANGED <<tree, modules, callStack, router, loaded, options, routesPath, log>>
    /\ UNCHANGED <<mwVars, dryRoutes>>
    /\ UNCHANGED callVars

\* the endpoint of the routes of a directory: its path below routesPath after a
\* slash, the names of the directories as they are
Endpoint(directory) == <<"/">> \o JoinSlash(directory)

\* the routes of an entry: the routeInfos of the files of the listing that
\* decode, in the order of the listing, each with the endpoint
DryRoutesOf(listing) ==
    LET routeInfos == DecodeAll(listing.directory, listing.files)
    IN  [k \in 1..Len(routeInfos) |->
            [endpoint |-> Endpoint(listing.directory),
             fileName |-> routeInfos[k].fileName,
             path |-> routeInfos[k].path,
             hasMiddlewarePrefix |-> routeInfos[k].hasMiddlewarePrefix,
             hasNumericPrefix |-> routeInfos[k].hasNumericPrefix,
             httpMethod |-> routeInfos[k].httpMethod,
             isStar |-> routeInfos[k].isStar]]

\* the entries of a directory and of all that is beneath it, and those of the
\* sub-directories of a listing from the k-th on
RECURSIVE DryRoutifyRecurse(_), DryRoutifyEach(_, _)
DryRoutifyRecurse(directory) ==
    LET listing == directoryListing(directory)
    IN  <<[directory |-> directory, routes |-> DryRoutesOf(listing)]>>
            \o DryRoutifyEach(listing, 1)

DryRoutifyEach(listing, k) ==
    IF k > Len(listing.subDirectories) THEN <<>>
    ELSE DryRoutifyRecurse(Append(listing.directory, listing.subDirectories[k]))
            \o DryRoutifyEach(listing, k + 1)

\* dryRoutify(routesPath) on a PathRoutifier that was given no app
DryRoutify ==
    /\ status = "constructed"
    /\ status' = "dry"
    /\ dryRoutes' = DryRoutifyRecurse(<<>>)
    /\ UNCHANGED <<tree, modules, callStack, middlewaresStack, routeStack, internalRefs,
                   router, loaded, options, routesPath, log>>
    /\ UNCHANGED mwVars
    /\ UNCHANGED callVars

Next ==
    \/ DryRoutify
    \/ LoadMiddlewares
    \/ TraverseDirectory
    \/ LoadMiddleware
    \/ LoadMiddlewaresReturn
    \/ Routify
    \/ RoutifyRecurse
    \/ PushMwRouteInfoOnStack
    \/ GenerateRoute
    \/ RecurseSubDirectory
    \/ PopMwRouteInfosOffStack
    \/ ReturnFromRecurse
    \/ RoutifyReturn

Spec == Init /\ [][Next]_vars

SpecScope == InitOn(ScopeTrees) /\ [][Next]_vars

SpecFiles == InitOn(FlatTrees) /\ [][Next]_vars

SpecRoundTrip == InitOn({RoundTripTree}) /\ [][Next]_vars

SpecNames == InitWith(NameTrees, OptionsFamily) /\ [][Next]_vars

SpecMiddlewares == InitFrom({SmallRoutesTree}, {LoggerOnly}, MiddlewaresFamily) /\ [][Next]_vars

SpecOrder == InitOn(OrderTrees) /\ [][Next]_vars

SpecCalls ==
    InitTimes({CallsTree}, {LoggerOnly}, {DocMiddlewares}, {MaxCalls}) /\ [][Next]_vars

SpecDirTools == InitFrom({SmallRoutesTree}, {LoggerOnly}, ListingFamily) /\ [][Next]_vars

SpecNaming == InitFrom({SmallRoutesTree}, NamingOptions, NamingFamily) /\ [][Next]_vars

-----------------------------------------------------------------------------
(* Vocabulary of the properties. *)

Range(seq) == {seq[k] : k \in 1..Len(seq)}

IsPrefix(p, d) == Len(p) <= Len(d) /\ SubSeq(d, 1, Len(p)) = p

EndsWith(s, suffix) ==
    Len(suffix) <= Len(s) /\ SubSeq(s, Len(s) - Len(suffix) + 1, Len(s)) = suffix

DotJs == <<".", "j", "s">>

DotStarDotJs == <<".", "s", "t", "a", "r", ".", "j", "s">>

\* a directory whose own name starts with the caret
IsMiddlewareDir(dir) == dir # <<>> /\ dir[Len(dir)][1] = "^"

\* the callables the factory of a loaded file returned: its frame
FrameOf(file) == FactoryReturn(file, modules[file]).items

\* every callable of the frame of file is in chain
FrameIn(file, chain) == \A k \in 1..Len(FrameOf(file)) : FrameOf(file)[k] \in Range(chain)

\* no callable that comes from file is in chain
NothingOf(file, chain) == \A c \in Range(chain) : c.file # file

\* the value of a numeric prefix, and the number of its digits
RECURSIVE DigitsValue(_)
DigitsValue(digits) ==
    IF digits = <<>> THEN 0
    ELSE 10 * DigitsValue(SubSeq(digits, 1, Len(digits) - 1))
            + (CharCode(digits[Len(digits)]) - 48)

HasNumericPrefix(name) == DigitRun(name) > 0 /\ name[DigitRun(name) + 1] = "."

PrefixValue(name) == DigitsValue(SubSeq(name, 1, DigitRun(name)))

-----------------------------------------------------------------------------
(* C1 *)

\* C1: when a normal directory holds both v.js and v.star.js (no numeric prefix,
\* no caret), the wildcard route of v is registered before the plain route of
\* v: a registration of v.js is always preceded by one of v.star.js.
C1_WildcardFirst ==
    \A j \in 1..Len(router) : \A v \in RouterMethods :
        LET dir == router[j].file[1]
        IN  (router[j].file[2] = v \o DotJs /\ <<dir, v \o DotStarDotJs>> \in tree.files)
            => \E i \in 1..(j - 1) :
                    /\ router[i].file = <<dir, v \o DotStarDotJs>>
                    /\ EndsWith(router[i].routeString, <<"*">>)
                    /\ ~EndsWith(router[j].routeString, <<"*">>)

\* both pairs of a directory with all.js, all.star.js, get.js and get.star.js
\* have been registered
C1_Witness ==
    /\ Len(router) = 4
    /\ router[1].file[2] = AllStarJs
    /\ router[2].file[2] = AllJs
    /\ router[3].file[2] = GetStarJs
    /\ router[4].file[2] = GetJs

-----------------------------------------------------------------------------
(* C2 *)

\* the files of a middleware directory that push a frame
IsMiddlewareFile(file) ==
    LET info == DecodeFileName(file[1], file[2])
    IN  /\ IsMiddlewareDir(file[1])
        /\ info.matched
        /\ ~info.hasNumericPrefix /\ ~info.isStar /\ ~info.hasMiddlewarePrefix

MethodOf(file) == DecodeFileName(file[1], file[2]).httpMethod

\* C2: the frame of a middleware file of a ^-directory S is in the chain of
\* every route registered inside the subtree of S whose method is the file's (any
\* route when the file is all.js), and no callable of it is in the chain of a
\* route registered outside the subtree of S.
C2_ScopeIsolation ==
    \A f \in tree.files : \A r \in Range(router) :
        IsMiddlewareFile(f) =>
            IF IsPrefix(f[1], r.file[1])
            THEN MethodOf(f) \in {all, r.httpMethod} => FrameIn(f, r.given)
            ELSE NothingOf(f, r.given)

\* a route inside the scope got the frame and a route of a sibling directory
\* was registered after it
C2_Witness ==
    \E f \in tree.files : \E i, j \in 1..Len(router) :
        /\ IsMiddlewareFile(f)
        /\ i < j
        /\ IsPrefix(f[1], router[i].file[1])
        /\ FrameIn(f, router[i].given)
        /\ ~IsPrefix(f[1], router[j].file[1])
        /\ router[j].file[1] # <<>>

-----------------------------------------------------------------------------
(* C3 *)

FramesUnder(mwStack, m) == IF m \in DOMAIN mwStack THEN mwStack[m] ELSE <<>>

SameFrames(a, b) ==
    \A m \in DOMAIN a \cup DOMAIN b : FramesUnder(a, m) = FramesUnder(b, m)

\* C3: when a visit of a directory returns, the middleware stack holds for
\* every method the frames it held when the visit was called, and the route
\* stack holds the same chunks; both are empty when the walk of routify is over.
C3_StacksRestored ==
    /\ Running("return") =>
            /\ SameFrames(middlewaresStack, Top.entryMiddlewaresStack)
            /\ routeStack = Top.entryRouteStack
    /\ (status = "running" /\ callStack = <<>>) =>
            /\ SameFrames(middlewaresStack, EmptyMiddlewaresStack)
            /\ routeStack = <<>>

\* the visit of a sub-directory that pushed frames and has sub-directories of
\* its own returns, inside a scope that has frames on the stack
C3_Witness ==
    /\ Running("return")
    /\ Len(callStack) >= 2
    /\ Top.mwRouteInfos # <<>>
    /\ Top.subDirectories # <<>>
    /\ \E m \in DOMAIN middlewaresStack : middlewaresStack[m] # <<>>

-----------------------------------------------------------------------------
(* C4 *)

\* the files of a normal directory that push a frame: ^verb.js
IsCaretFile(file) ==
    LET info == DecodeFileName(file[1], file[2])
    IN  ~IsMiddlewareDir(file[1]) /\ info.matched /\ info.hasMiddlewarePrefix

\* the callables that the files names of directory dir contribute to method m
RECURSIVE FramesOfNames(_, _, _)
FramesOfNames(dir, names, m) ==
    IF names = <<>> THEN <<>>
    ELSE LET f == <<dir, names[1]>>
         IN  (IF (IsMiddlewareFile(f) \/ IsCaretFile(f)) /\ MethodOf(f) = m
              THEN FrameOf(f) ELSE <<>>)
                \o FramesOfNames(dir, Tail(names), m)

\* ... of the directories on the way from the root to dir, from the k-th on,
\* each with its files in lexical order
RECURSIVE ScopeChainFrom(_, _, _)
ScopeChainFrom(dir, k, m) ==
    IF k > Len(dir) THEN <<>>
    ELSE LET scope == SubSeq(dir, 1, k)
             names == SortNames({f[2] : f \in {g \in tree.files : g[1] = scope}})
         IN  FramesOfNames(scope, names, m) \o ScopeChainFrom(dir, k + 1, m)

\* the chain the scopes around dir define for a route of method m
ScopeChain(dir, m) ==
    ScopeChainFrom(dir, 0, all) \o (IF m # all THEN ScopeChainFrom(dir, 0, m) ELSE <<>>)

\* C4: the chain handed to the factory of a route of method m is the callables
\* of the frames under all, outer scope first, followed, when m is not all, by
\* those of the frames under m, and nothing else.
C4_ChainOfRoute ==
    \A r \in Range(router) : r.given = ScopeChain(r.file[1], r.httpMethod)

\* a get route whose chain has a callable of an all frame of an inner scope
\* before a callable of a get frame of an outer scope
C4_Witness ==
    \E r \in Range(router) : \E i, j \in 1..Len(r.given) :
        /\ r.httpMethod = get
        /\ i < j
        /\ MethodOf(r.given[i].file) = all
        /\ MethodOf(r.given[j].file) = get
        /\ Len(r.given[i].file[1]) > Len(r.given[j].file[1])

-----------------------------------------------------------------------------
(* C5 *)

\* the factory of registration r removed or reordered entries of its chain
ChainChanged(r) == r.callbacks # r.given \o r.handlers

\* C5: a factory that removes or reorders entries of its chain leaves the
\* middleware stack as it is, and every other route is handed the full chain of
\* its scopes.
C5_MutationIsolated ==
    /\ [][Running("generate") => middlewaresStack' = middlewaresStack]_vars
    /\ [](\A i, j \in 1..Len(router) :
            (i # j /\ ChainChanged(router[i])) =>
                router[j].given = ScopeChain(router[j].file[1], router[j].httpMethod))

\* a route changed its chain and a route registered after it was handed the
\* same, unchanged chain
C5_Witness ==
    \E i, j \in 1..Len(router) :
        /\ i < j
        /\ ChainChanged(router[i])
        /\ router[j].given = router[i].given

-----------------------------------------------------------------------------
(* C6 *)

\* the route chunks of the names of a directory path
RECURSIVE Segments(_)
Segments(dir) ==
    IF dir = <<>> THEN <<>>
    ELSE (CASE dir[1][1] = "^" -> <<>>
            [] dir[1][1] = "$" -> << <<":">> \o Tail(dir[1]) >>
            [] OTHER -> <<dir[1]>>)
         \o Segments(Tail(dir))

\* C6: the pattern of a route of directory D is "/" followed by the chunks of
\* the path to D joined by "/", a ^-directory giving no chunk and $name giving
\* :name, with "*" appended exactly for a .star file.
C6_PatternOfRoute ==
    \A r \in Range(router) :
        r.routeString = <<"/">> \o JoinSlash(Segments(r.file[1]))
                            \o (IF EndsWith(r.file[2], DotStarDotJs) THEN <<"*">> ELSE <<>>)

\* a wildcard route beneath a middleware directory and a parameter directory
C6_Witness ==
    \E r \in Range(router) :
        /\ r.file = << <<AuthDir, IdDir>>, GetStarJs >>
        /\ r.routeString = <<"/", ":", "i", "d", "*">>

-----------------------------------------------------------------------------
(* C7 *)

\* C7 as claimed: routes with a numeric prefix of one directory are registered
\* in ascending numeric order of the prefixes, whatever their digit counts.
C7_NumericOrder ==
    \A i, j \in 1..Len(router) :
        (/\ i < j
         /\ router[i].file[1] = router[j].file[1]
         /\ HasNumericPrefix(router[i].file[2])
         /\ HasNumericPrefix(router[j].file[2]))
        => PrefixValue(router[i].file[2]) <= PrefixValue(router[j].file[2])

\* C7 as amended: they are registered in the lexical order of the file names,
\* which is the ascending numeric order for prefixes of the same digit count.
C7_LexicalOrder ==
    \A i, j \in 1..Len(router) :
        (/\ i < j
         /\ router[i].file[1] = router[j].file[1]
         /\ HasNumericPrefix(router[i].file[2])
         /\ HasNumericPrefix(router[j].file[2]))
        => /\ StringLess(router[i].file[2], router[j].file[2])
           /\ DigitRun(router[i].file[2]) = DigitRun(router[j].file[2])
                => PrefixValue(router[i].file[2]) <= PrefixValue(router[j].file[2])

\* 1.get.js, 10.get.js and 2.delete.js have been registered, in this order
C7_Witness ==
    \E i, j, k \in 1..Len(router) :
        /\ i < j /\ j < k
        /\ router[i].file[2] = OneGetJs
        /\ router[j].file[2] = TenGetJs
        /\ router[k].file[2] = TwoDeleteJs

-----------------------------------------------------------------------------
(* C8 *)

Patterns == [k \in 1..Len(router) |-> router[k].routeString]

OwnersPattern == <<"/">> \o OwnersDir

OwnersIdPattern == <<"/">> \o OwnersDir \o <<"/", ":", "i", "d">>

UsersPattern == <<"/">> \o UsersDir

\* no registration comes from ^auth itself, and the chain of /users has the
\* callable of ^auth/all.js
AuthOnlyInChain ==
    /\ \A r \in Range(router) : r.file[1] # <<AuthDir>>
    /\ \A r \in Range(router) :
            r.routeString = UsersPattern =>
                Callable(<< <<AuthDir>>, AllJs >>, 1) \in Range(r.given)

\* C8 as claimed: the patterns are /owners, /owners/:id, /users in this order.
C8_RoundTripClaimed ==
    status = "returned" =>
        Patterns = <<OwnersPattern, OwnersIdPattern, UsersPattern>> /\ AuthOnlyInChain

\* C8 as amended: the patterns are /users, /owners, /owners/:id in this order,
\* ^auth sorting before owners.
C8_RoundTrip ==
    status = "returned" =>
        Patterns = <<UsersPattern, OwnersPattern, OwnersIdPattern>> /\ AuthOnlyInChain

\* routify returned for the tree, three routes registered
C8_Witness ==
    status = "returned" /\ tree = RoundTripTree /\ Len(router) = 3

-----------------------------------------------------------------------------
(* C9 *)

\* a file of a middleware directory with a numeric prefix, .star or a caret
IsIgnoredFile(file) ==
    LET info == DecodeFileName(file[1], file[2])
    IN  /\ IsMiddlewareDir(file[1])
        /\ info.matched
        /\ (info.hasNumericPrefix \/ info.isStar \/ info.hasMiddlewarePrefix)

\* the callables on the middleware stack
OnStack ==
    UNION {UNION {Range(middlewaresStack[m][k]) : k \in 1..Len(middlewaresStack[m])} :
                m \in DOMAIN middlewaresStack}

\* C9: in a middleware directory a file with a numeric prefix, .star or a
\* caret is never loaded and gives no frame, and no file of a middleware
\* directory is registered as a route.
C9_IgnoredInMiddlewareDir ==
    /\ \A f \in tree.files :
            IsIgnoredFile(f) =>
                /\ f \notin Range(loaded)
                /\ \A c \in OnStack : c.file # f
                /\ \A r \in Range(router) : NothingOf(f, r.given)
    /\ \A r \in Range(router) : ~IsMiddlewareDir(r.file[1])

\* routify returned after the visit of a middleware directory that holds an
\* ignored file next to a middleware file that was loaded
C9_Witness ==
    /\ status = "returned"
    /\ \E f, g \in tree.files :
            /\ IsIgnoredFile(f)
            /\ g[1] = f[1]
            /\ g \in Range(loaded)

-----------------------------------------------------------------------------
(* C10 *)

\* C10: ^verb.js of a normal directory D is registered as no route; its frame
\* is in the chain of every route of method verb (of every route for ^all.js)
\* registered from D or beneath D, and of no route outside the subtree of D.
C10_DefaultMiddleware ==
    \A f \in tree.files : \A r \in Range(router) :
        IsCaretFile(f) =>
            /\ r.file # f
            /\ IF IsPrefix(f[1], r.file[1])
               THEN MethodOf(f) \in {all, r.httpMethod} => FrameIn(f, r.given)
               ELSE NothingOf(f, r.given)

\* the frame of a ^verb.js file of a sub-directory is in the chain of a route
\* of that directory, and a route outside it was registered afterwards
C10_Witness ==
    \E f \in tree.files : \E i, j \in 1..Len(router) :
        /\ IsCaretFile(f)
        /\ i < j
        /\ router[i].file[1] = f[1]
        /\ FrameIn(f, router[i].given)
        /\ ~IsPrefix(f[1], router[j].file[1])

-----------------------------------------------------------------------------
(* C11 *)

\* a routable name as the claim has it: the name decodes and its token is a
\* verb of the router or all
IsRoutableName(name) ==
    LET info == DecodeFileName(<<>>, name)
    IN  info.matched /\ info.httpMethod \in RouterMethods

\* C11: a file whose name is not a routable name (index.js for one) is ignored:
\* its module is never loaded and no route is registered for it, so that no error
\* comes from it.
C11_UnroutableIgnored ==
    \A f \in tree.files :
        ~IsRoutableName(f[2]) =>
            /\ f \notin Range(loaded)
            /\ \A r \in Range(router) : r.file # f

-----------------------------------------------------------------------------
(* C12 *)

\* C12: when the constructor is given a list of methods, no route is registered
\* whose verb is outside the list.
C12_OnlyListedMethods ==
    options.methods.given =>
        \A r \in Range(router) : r.httpMethod \in Range(options.methods.list)

-----------------------------------------------------------------------------
(* C13 *)

\* the modules that break the contract: no function exported, or a return
\* value that is neither a callable nor an array of callables
BreaksContract(file) ==
    \/ ~ExportsFunction(modules[file])
    \/ FactoryReturn(file, modules[file]).type \notin {"function", "array"}
    \/ \E c \in Range(FactoryReturn(file, modules[file]).items) : ~IsFunction(c)

\* C13: routify fails when a module it loads breaks the contract, be it a
\* route file, a file of a ^ directory or a ^verb.js file: routify never returns
\* after it loaded such a module.
C13_ContractEnforced ==
    status = "returned" => \A f \in Range(loaded) : ~BreaksContract(f)

-----------------------------------------------------------------------------
(* C14 *)

\* a directory that holds a file with both the caret and .star
HasCaretStar(dir) ==
    \E f \in tree.files :
        LET info == DecodeFileName(f[1], f[2])
        IN  f[1] = dir /\ info.matched /\ info.hasMiddlewarePrefix /\ info.isStar

\* C14: the visit of a directory, normal or middleware, that holds a file with
\* both the caret and .star makes routify fail: the visit never gets past the
\* listing, routify does not return, and no file of the directory or of a
\* directory beneath it is loaded or registered.
C14_CaretWithStar ==
    \A dir \in tree.dirs :
        HasCaretStar(dir) =>
            /\ \A k \in 1..Len(callStack) :
                    callStack[k].directory = dir => callStack[k].pc = "list"
            /\ status # "returned"
            /\ \A f \in Range(loaded) : ~IsPrefix(dir, f[1])
            /\ \A r \in Range(router) : ~IsPrefix(dir, r.file[1])

\* routify failed at the visit of a middleware directory that holds such a
\* file, after it registered a route of the directory above
C14_Witness ==
    /\ status = "threw"
    /\ HasCaretStar(<<AuthDir>>)
    /\ ~HasCaretStar(<<>>)
    /\ router # <<>>

-----------------------------------------------------------------------------
(* C15 *)

\* C15: routify called without a routes root, with the empty string or with a
\* path that does not exist fails, and registers no route.
C15_BadRoutesPath ==
    routesPath \in {"undefined", "", "nonexistent"} =>
        /\ status \in {"running", "threw"}
        /\ router = <<>>
        /\ loaded = <<>>
        /\ (status = "running" => Running("list") /\ Len(callStack) = 1)

\* routify failed, called without a routes root for a tree that has files
C15_Witness ==
    status = "threw" /\ routesPath = "undefined" /\ tree.files # {}

-----------------------------------------------------------------------------
(* C16 *)

\* the modules whose loading raises an error in the try blocks
RaisesOnLoad(file) ==
    \/ ~ExportsFunction(modules[file])
    \/ FactoryReturn(file, modules[file]).type \notin {"function", "array"}

\* C16: once an error is raised in a call of routify, no further factory is
\* invoked and no further route is registered, and the call does not return a
\* router: a module whose loading raises an error is the last one loaded, it
\* gives no route, and routify has failed.
C16_FailFast ==
    /\ [][status = "threw" =>
            (status' = "threw" /\ loaded' = loaded /\ router' = router)]_vars
    /\ [](\A k \in 1..Len(loaded) :
            RaisesOnLoad(loaded[k]) =>
                /\ k = Len(loaded)
                /\ status = "threw"
                /\ \A r \in Range(router) : r.file # loaded[k])

\* routify failed at a module after it registered a route, and a file of the
\* tree that is a route was never loaded
C16_Witness ==
    /\ status = "threw"
    /\ router # <<>>
    /\ RaisesOnLoad(loaded[Len(loaded)])
    /\ \E f \in tree.files : IsRoutableName(f[2]) /\ f \notin Range(loaded)

-----------------------------------------------------------------------------
(* C17 *)

\* an event of the log that tells of an error with file: its path and the
\* method, and the pattern for a route
ErrorEventOf(file) ==
    \E e \in Range(log) :
        /\ e.path = file
        /\ e.httpMethod = MethodOf(file)
        /\ e.message \in {"Error while loading middleware", "Error while loading route"}
        /\ (e.message = "Error while loading route" => e.routeString # <<>>)

\* C17: with a logger, when routify fails at a module that breaks the export
\* or return contract, an event with the path of the file and the method was
\* logged before the error left routify.
C17_ErrorLogged ==
    (/\ options.logger
     /\ status = "threw"
     /\ loaded # <<>>
     /\ BreaksContract(loaded[Len(loaded)]))
    => ErrorEventOf(loaded[Len(loaded)])

-----------------------------------------------------------------------------
(* C18 *)

\* the normalized name of the names of the middlewares of the model
NormOf(name) ==
    CASE name = <<"h", "a", "s", "-", "a", "c", "c", "o", "u", "n", "t">> ->
            <<"h", "a", "s", "A", "c", "c", "o", "u", "n", "t">>
      [] name = <<"h", "a", "s", "_", "a", "c", "c", "o", "u", "n", "t">> ->
            <<"h", "a", "s", "A", "c", "c", "o", "u", "n", "t">>
      [] OTHER -> name

\* a file name without .js
StripJs(name) == IF EndsWith(name, DotJs) THEN SubSeq(name, 1, Len(name) - 3) ELSE name

\* the keys that lead to the value of a middleware file
KeysOf(file) ==
    [k \in 1..Len(file[1]) |-> NormOf(file[1][k])] \o <<NormOf(StripJs(file[2]))>>

\* loadMiddlewares failed at the last file it required
LoadFailed == status = "threw" /\ routesPath = "null"

\* the factory of the file was called and returned
FactoryReturned(file) ==
    /\ file \in Range(mwLoaded)
    /\ ~(LoadFailed /\ file = mwLoaded[Len(mwLoaded)])

\* C18: when a loaded file and a directory of the same parent have the same
\* normalized name, the key holds the callable of the file, no file in or
\* beneath the directory is loaded, and nothing is attached to the key.
C18_FileWins ==
    \A f \in middlewaresFs.files : \A d \in middlewaresFs.dirs :
        (/\ FactoryReturned(f)
         /\ d # <<>>
         /\ Parent(d) = f[1]
         /\ NormOf(d[Len(d)]) = NormOf(StripJs(f[2])))
        => /\ KeysOf(f) \in DOMAIN middlewares
           /\ middlewares[KeysOf(f)] = FunctionNode(f)
           /\ \A g \in Range(mwLoaded) : ~IsPrefix(d, g[1])
           /\ \A keys \in DOMAIN middlewares : IsPrefix(KeysOf(f), keys) => keys = KeysOf(f)

-----------------------------------------------------------------------------
(* C19 *)

\* loadMiddlewares has returned
LoadDone == status \in {"idle", "running", "returned"} \/ (status = "threw" /\ routesPath # "null")

\* every callable of the object is the one of a loaded file, at the keys of
\* that file
NoOtherLeaves ==
    \A keys \in DOMAIN middlewares :
        middlewares[keys].type = "function" =>
            \E f \in Range(mwLoaded) : keys = KeysOf(f) /\ middlewares[keys] = FunctionNode(f)

\* C19 as claimed: the value at the keys of every loaded file is the callable
\* of that file, and the object has no other leaves.
C19_MirrorsDirectory ==
    LoadDone =>
        /\ \A f \in Range(mwLoaded) :
                KeysOf(f) \in DOMAIN middlewares /\ middlewares[KeysOf(f)] = FunctionNode(f)
        /\ NoOtherLeaves

\* C19 as amended: ... of every loaded file but one whose keys are the keys, or
\* start with the keys, of a file loaded after it.
C19_MirrorsLastLoaded ==
    LoadDone =>
        /\ \A k \in 1..Len(mwLoaded) :
                (\A j \in (k + 1)..Len(mwLoaded) :
                    ~IsPrefix(KeysOf(mwLoaded[j]), KeysOf(mwLoaded[k])))
                => /\ KeysOf(mwLoaded[k]) \in DOMAIN middlewares
                   /\ middlewares[KeysOf(mwLoaded[k])] = FunctionNode(mwLoaded[k])
        /\ NoOtherLeaves

\* has-account.js and has_account.js of one directory and a file of a
\* sub-directory have been loaded
C19_Witness ==
    /\ LoadDone
    /\ \E f, g, h \in Range(mwLoaded) :
            /\ f[1] = g[1]
            /\ f[2] = HasAccountJs
            /\ g[2] = HasAccountUnderscoreJs
            /\ h[1] # <<>>
            /\ middlewares[KeysOf(h)] = FunctionNode(h)

-----------------------------------------------------------------------------
(* C20 *)

\* C20: a file whose name ends in .test.js or .tests.js is never required by
\* loadMiddlewares.
C20_TestFilesIgnored ==
    \A f \in Range(mwLoaded) :
        /\ ~EndsWith(f[2], <<".", "t", "e", "s", "t", ".", "j", "s">>)
        /\ ~EndsWith(f[2], <<".", "t", "e", "s", "t", "s", ".", "j", "s">>)


\* C21: every callable loadMiddlewares stored has the name its module gave it
\* when it gave one; otherwise, with autoNameAnonymousMiddleware, the name is the
\* key it is stored under (the camel-cased file name without .js), and without
\* the option it has no name
C21_AutoNamed ==
    \A f \in DOMAIN functionName :
        IF f \in middlewaresFs.named THEN functionName[f] = SpecialName
        ELSE IF options.autoNameAnonymousMiddleware
             THEN functionName[f] = NormOf(StripJs(f[2]))
             ELSE functionName[f] = <<>>

\* with the option, a named and an anonymous function are both stored
C21_Witness ==
    /\ options.autoNameAnonymousMiddleware
    /\ status = "idle"
    /\ \E f, g \in DOMAIN functionName :
          /\ f \in middlewaresFs.named /\ functionName[f] = SpecialName
          /\ g \notin middlewaresFs.named
          /\ g[2] = HasAccountJs
          /\ functionName[g] = <<"h", "a", "s", "A", "c", "c", "o", "u", "n", "t">>

-----------------------------------------------------------------------------
(* C22 *)

\* a sorts before b by UTF-16 code units: b continues a, or the first character
\* in which they differ is the smaller one in a
CodeUnitsBefore(a, b) ==
    \E k \in 1..(Len(a) + 1) :
        /\ \A j \in 1..(k - 1) : j <= Len(b) /\ a[j] = b[j]
        /\ \/ k = Len(a) + 1 /\ Len(b) >= k
           \/ k <= Len(a) /\ k <= Len(b) /\ CharCode(a[k]) < CharCode(b[k])

\* the elements of seq are in ascending order, none twice
Ascending(seq) ==
    \A i, j \in 1..Len(seq) : i < j => CodeUnitsBefore(seq[i], seq[j])

\* the names of the files in directory D of fs
FileNamesIn(fs, D) == {f[2] : f \in {g \in fs.files : g[1] = D}}

\* the names of the directories in directory D of fs
DirectoryNamesIn(fs, D) ==
    {d[Len(d)] : d \in {e \in fs.dirs : e # <<>> /\ Parent(e) = D}}

\* C22: the listing of an existing directory has files and subDirectories that
\* are each sorted, hold neither "." nor "..", share no name, and are all the
\* files and all the directories of the directory, hidden ones included; the
\* listing of a path that is undefined or does not exist fails: nothing is
\* visited, loaded or registered.
C22_Listing ==
    /\ traversal.visited # <<>> =>
          LET listing == traversal.listing
              D == listing.directory
          IN  /\ D \in middlewaresFs.dirs
              /\ Ascending(listing.files)
              /\ Ascending(listing.subDirectories)
              /\ Range(listing.files) \cap Range(listing.subDirectories) = {}
              /\ {<<".">>, <<".", ".">>} \cap
                     (Range(listing.files) \cup Range(listing.subDirectories)) = {}
              /\ Range(listing.files) = FileNamesIn(middlewaresFs, D)
              /\ Range(listing.subDirectories) = DirectoryNamesIn(middlewaresFs, D)
    /\ (middlewaresFs.given /\ <<>> \notin middlewaresFs.dirs) =>
          /\ ~LoadDone
          /\ traversal.visited = <<>>
          /\ mwLoaded = <<>>
    /\ routesPath \in {"undefined", "nonexistent"} =>
          /\ status \in {"running", "threw"}
          /\ (status = "running" => Running("list") /\ Len(callStack) = 1)
          /\ router = <<>>

\* the listing of a directory with two files, one of them hidden, and a hidden
\* directory
C22_Witness ==
    /\ traversal.listing.files = <<DotNotes, MiscJs>>
    /\ traversal.listing.subDirectories = <<DotMiscDir>>

-----------------------------------------------------------------------------
(* C23 *)

\* p comes before q in the pre-order of a tree: q is beneath p, or where the two
\* paths part the name of p sorts before the name of q
PathBefore(p, q) ==
    \E k \in 1..(Len(p) + 1) :
        /\ \A j \in 1..(k - 1) : j <= Len(q) /\ p[j] = q[j]
        /\ \/ k = Len(p) + 1 /\ Len(q) >= k
           \/ k <= Len(p) /\ k <= Len(q) /\ CodeUnitsBefore(p[k], q[k])

\* C23: the directories the callback of traverseDirectory is called for are in
\* pre-order: a directory after its parent and before all that is beneath it,
\* the sub-directories of a directory in sorted order, each with all that is
\* beneath it before the next, no directory twice, and, once the traversal is
\* over, every directory of the tree.
C23_PreOrder ==
    LET visited == traversal.visited
    IN  /\ \A i, j \in 1..Len(visited) : i < j => PathBefore(visited[i], visited[j])
        /\ \A j \in 1..Len(visited) :
              visited[j] # <<>> => \E i \in 1..(j - 1) : visited[i] = Parent(visited[j])
        /\ Range(visited) \subseteq middlewaresFs.dirs
        /\ LoadDone => Range(visited) = middlewaresFs.dirs

\* a traversal of a directory with a directory in it, and a second directory
\* that sorts after it
C23_Witness ==
    /\ LoadDone
    /\ Len(traversal.visited) = 4
    /\ Len(traversal.visited[3]) = 2
    /\ Len(traversal.visited[4]) = 1

-----------------------------------------------------------------------------
(* C24 *)

\* the directories of the entries, in the order of the entries
DryDirectories == [k \in 1..Len(dryRoutes) |-> dryRoutes[k].directory]

\* the descriptor of a route file of directory D
DescriptorOf(D, fileName) ==
    LET info == DecodeFileName(D, fileName)
    IN  [endpoint |-> IF D = <<>> THEN <<"/">>
                      ELSE IF Len(D) = 1 THEN <<"/">> \o D[1]
                      ELSE <<"/">> \o D[1] \o <<"/">> \o D[2],
         fileName |-> fileName,
         path |-> <<D, fileName>>,
         hasMiddlewarePrefix |-> info.hasMiddlewarePrefix,
         hasNumericPrefix |-> info.hasNumericPrefix,
         httpMethod |-> info.httpMethod,
         isStar |-> info.isStar]

-----------------------------------------------------------------------------
(* C25 *)

\* star is v.star.js and plain is v.js, for a v without caret or numeric prefix
IsWildcardPair(star, plain) ==
    /\ EndsWith(star, DotStarDotJs)
    /\ plain = SubSeq(star, 1, Len(star) - Len(DotStarDotJs)) \o DotJs
    /\ star[1] # "^"
    /\ ~HasNumericPrefix(star)

\* C25: routes are registered in pre-order.  Of two routes of one directory the
\* earlier is the one whose file name sorts first, except that v.star.js comes
\* before v.js; of two routes of different directories the earlier is the one
\* whose directory comes first in the pre-order of the tree by the names of the
\* directories, ^ and $ included: a directory before all that is beneath it,
\* and all that is beneath a directory before its next sibling.
C25_PreOrderEmission ==
    \A i, j \in 1..Len(router) :
        i < j =>
            LET a == router[i].file
                b == router[j].file
            IN  IF a[1] = b[1]
                THEN /\ CodeUnitsBefore(a[2], b[2]) \/ IsWildcardPair(a[2], b[2])
                     /\ ~IsWildcardPair(b[2], a[2])
                ELSE PathBefore(a[1], b[1])

\* routes of a directory, of a directory beneath its first sub-directory and of
\* its second sub-directory, in that order
C25_Witness ==
    /\ status = "returned"
    /\ Len(router) = 3
    /\ router[1].file[1] = <<>>
    /\ Len(router[2].file[1]) = 2
    /\ Len(router[3].file[1]) = 1

-----------------------------------------------------------------------------
(* C26 *)

\* the names of the files of directory D that decode
DecodedNamesIn(D) == {n \in FileNamesIn(tree, D) : DecodeFileName(D, n).matched}

\* the position of name in the lexical order of names
LexicalPosition(name, names) == 1 + Cardinality({n \in names : CodeUnitsBefore(n, name)})

\* the two names at i and i + 1 are not in lexical order
Inverted(names, i) ==
    i >= 1 /\ i < Len(names) /\ ~CodeUnitsBefore(names[i], names[i + 1])

\* C26: the list sortRouteInfos_ returns for a directory holds the descriptor of
\* each file that decodes once; each is at most one place from its place in the
\* lexical order; two that are not in lexical order are next to each other,
\* v.star.js then v.js, without caret or numeric prefix; and no descriptor is in
\* two such pairs.
C26_Permutation ==
    \A k \in 1..Len(callStack) :
        callStack[k].pc # "list" =>
            LET D == callStack[k].directory
                routeInfos == callStack[k].routeInfos
                names == [n \in 1..Len(routeInfos) |-> routeInfos[n].fileName]
            IN  /\ Range(names) = DecodedNamesIn(D)
                /\ Len(names) = Cardinality(DecodedNamesIn(D))
                /\ \A n \in 1..Len(names) :
                      /\ routeInfos[n] = DecodeFileName(D, names[n])
                      /\ LexicalPosition(names[n], Range(names)) \in {n - 1, n, n + 1}
                /\ \A i, j \in 1..Len(names) :
                      (i < j /\ ~CodeUnitsBefore(names[i], names[j])) =>
                          j = i + 1 /\ IsWildcardPair(names[i], names[j])
                /\ \A i \in 1..Len(names) : ~(Inverted(names, i) /\ Inverted(names, i + 1))

\* a list of four descriptors with both of its pairs swapped
C26_Witness ==
    \E k \in 1..Len(callStack) :
        /\ callStack[k].pc # "list"
        /\ Len(callStack[k].routeInfos) = 4
        /\ Inverted([n \in 1..4 |-> callStack[k].routeInfos[n].fileName], 1)
        /\ Inverted([n \in 1..4 |-> callStack[k].routeInfos[n].fileName], 3)

-----------------------------------------------------------------------------
(* C27 *)

\* the chain given to the factory of a route as a factory of that kind leaves it
LeftBy(kind, given) ==
    IF kind = "splice"
    THEN SubSeq(given, 2, Len(given))
    ELSE IF kind = "reverse"
    THEN [k \in 1..Len(given) |-> given[Len(given) - k + 1]]
    ELSE given

\* the number of times the factory of file was invoked
Invocations(file) == Cardinality({k \in 1..Len(loaded) : loaded[k] = file})

\* a file that gives a route: in a normal directory, with a name that decodes
\* and has no caret
IsRouteFile(file) ==
    /\ ~IsMiddlewareDir(file[1])
    /\ DecodeFileName(file[1], file[2]).matched
    /\ file[2][1] # "^"

\* C27: the callbacks of a registration are the chain that was given to the
\* factory of the route as the factory left it, followed by what the factory
\* returned, one callable or the callables of an array in their order; the
\* factory of a file is invoked at most once in a call of routify, and exactly
\* once, for one registration, when routify has returned.
C27_CallbacksOfRoute ==
    /\ \A r \in Range(router) :
          /\ r.callbacks = LeftBy(modules[r.file], r.given) \o r.handlers
          /\ r.handlers = IF modules[r.file] = "array"
                          THEN <<Callable(r.file, 1), Callable(r.file, 2)>>
                          ELSE <<Callable(r.file, 1)>>
    /\ \A f \in tree.files : Invocations(f) <= 1
    /\ status = "returned" =>
          \A f \in tree.files :
              IsRouteFile(f) =>
                  /\ Invocations(f) = 1
                  /\ Cardinality({k \in 1..Len(router) : router[k].file = f}) = 1

\* a factory that removed the first of the two entries of its chain: the
\* route is registered with the second and its handler
C27_Witness ==
    /\ status = "returned"
    /\ \E r \in Range(router) :
          /\ modules[r.file] = "splice"
          /\ Len(r.given) = 2
          /\ r.callbacks = <<r.given[2], Callable(r.file, 1)>>

-----------------------------------------------------------------------------
(* C28 *)

\* a call of routify after an earlier one is on its way or over
InLaterCall == previous # NoCall

\* the earlier call of routify failed with middlewares on the stack
AbortedInScope ==
    previous.status = "threw" /\ previous.middlewaresStack # EmptyMiddlewaresStack

\* C28: a call of routify starts with both stacks empty and, when it returns,
\* leaves them and the reference to the middlewares dropped; in a call after an
\* earlier one every route is handed the chain of its own scopes and nothing of
\* the earlier call, and a call that ends on the same routes path as the call
\* before it, which may have failed, ends as that call did, with the same
\* registrations.
C28_CallsIndependent ==
    /\ (Running("list") /\ Len(callStack) = 1) =>
            middlewaresStack = EmptyMiddlewaresStack /\ routeStack = <<>>
    /\ status = "returned" =>
            /\ internalRefs = "null"
            /\ middlewaresStack = EmptyMiddlewaresStack
            /\ routeStack = <<>>
    /\ InLaterCall =>
            \A r \in Range(router) :
                /\ r.given = ScopeChain(r.file[1], r.httpMethod)
                /\ r.routeString = <<"/">> \o JoinSlash(Segments(r.file[1]))
                                        \o (IF EndsWith(r.file[2], DotStarDotJs)
                                            THEN <<"*">> ELSE <<>>)
    /\ (InLaterCall /\ status \in {"returned", "threw"}
            /\ previous.routesPath = routesPath) =>
            /\ status = previous.status
            /\ router = previous.router

\* a call that failed beneath the middleware directory, after it registered a
\* route, and a second call that registered that route again
C28_Witness ==
    /\ AbortedInScope
    /\ previous.router # <<>>
    /\ previous.routesPath = "routes"
    /\ status = "threw"
    /\ routesPath = "routes"
    /\ router = previous.router
    /\ << <<AuthDir>>, GetJs >> \in Range(loaded)


====
